---- MODULE Spec2Model ----
(***************************************************************************)
(* State-machine model of the VectorResults component                      *)
(* (src/unnamed/part_000) and of the VINFO multi-command builder           *)
(* (src/app/api/redis/command/vinfo_multi/command.ts).                     *)
(*                                                                         *)
(* One action is one event handler (or one change of the props handed in   *)
(* by the parent, or one completion of an asynchronous fetch) together     *)
(* with the React effects that the resulting render commits, run in their  *)
(* order of declaration until no effect's dependency list has changed.     *)
(***************************************************************************)
EXTENDS Integers, Sequences, FiniteSets, TLC

----------------------------------------------------------------------------
(* Bounds of the model *)

\* how many times the dataset identity (keyName) may change in one run
MaxGen == 1
\* how many started fetches (live or cancelled) may be awaiting their response
MaxFetches == 1

----------------------------------------------------------------------------
(* Values *)

\* the value of a cache entry for which the store reports no attributes,
\* and of editingAttributes when no editor is open
Null == "<null>"

Keys == {"vset:a", "vset:b"}

\* Raw attribute payloads the store (or the editor) can hand back.
PayloadColor == "{\"color\":\"red\"}"
PayloadSize == "{\"size\":3}"
PayloadBad == "{color:"
\* a payload with a field that has the name of a system column
PayloadElement == "{\"element\":\"x\"}"
Payloads == {PayloadColor, PayloadSize, PayloadBad, PayloadElement}

\* JSON.parse(payload): does it return (TRUE) or throw (FALSE)
ParseOk(p) == p \in {PayloadColor, PayloadSize, PayloadElement}

\* Object.keys(JSON.parse(payload)), in insertion order
ParsedKeys(p) ==
    CASE p = PayloadColor -> <<"color">>
      [] p = PayloadSize -> <<"size">>
      [] p = PayloadElement -> <<"element">>
      [] OTHER -> <<>>

\* JSON.parse(payload) as a mapping from field name to the value's JSON text
Parsed(p) ==
    CASE p = PayloadColor -> [f \in {"color"} |-> "red"]
      [] p = PayloadSize -> [f \in {"size"} |-> "3"]
      [] p = PayloadElement -> [f \in {"element"} |-> "x"]
      [] OTHER -> [f \in {} |-> ""]

\* the empty object {}
EmptyMap == [x \in {} |-> Null]

Range(s) == {s[i] : i \in DOMAIN s}

----------------------------------------------------------------------------
(* Strings as sequences of characters *)

LowerSeq == <<"a","b","c","d","e","f","g","h","i","j","k","l","m",
              "n","o","p","q","r","s","t","u","v","w","x","y","z">>
UpperSeq == <<"A","B","C","D","E","F","G","H","I","J","K","L","M",
              "N","O","P","Q","R","S","T","U","V","W","X","Y","Z">>
DigitSeq == <<"0","1","2","3","4","5","6","7","8","9">>
LowerLetters == Range(LowerSeq)
UpperLetters == Range(UpperSeq)
Digits == Range(DigitSeq)

\* the position of c in seq (0 when absent)
IndexOf(seq, c) ==
    IF c \in Range(seq) THEN CHOOSE i \in DOMAIN seq : seq[i] = c ELSE 0

\* [a-zA-Z_]
IsIdentStart(c) == c \in LowerLetters \cup UpperLetters \cup {"_"}
\* [a-zA-Z0-9_]
IsIdentChar(c) == IsIdentStart(c) \/ c \in Digits

\* the characters of a sequence joined into one string
RECURSIVE Join(_)
Join(cs) == IF cs = <<>> THEN "" ELSE Head(cs) \o Join(Tail(cs))

\* the end of the longest run of identifier characters of s starting at i
RECURSIVE IdentEnd(_, _)
IdentEnd(s, i) ==
    IF i + 1 <= Len(s) /\ IsIdentChar(s[i + 1]) THEN IdentEnd(s, i + 1) ELSE i

\* searchFilter.match(/\.[a-zA-Z_][a-zA-Z0-9_]*/g), marker dropped, scanning from i
RECURSIVE FieldMatches(_, _)
FieldMatches(s, i) ==
    IF i > Len(s) THEN <<>>
    ELSE IF s[i] = "." /\ i + 1 <= Len(s) /\ IsIdentStart(s[i + 1])
         THEN LET j == IdentEnd(s, i + 1)
              IN  <<Join(SubSeq(s, i + 1, j))>> \o FieldMatches(s, j + 1)
         ELSE FieldMatches(s, i + 1)

\* the matches with their duplicates
KeepDuplicates(seq) == seq

\* Array.from(new Set(seq)): first appearances, in order
RECURSIVE Dedupe(_)
Dedupe(seq) ==
    IF seq = <<>> THEN <<>>
    ELSE LET init == Dedupe(SubSeq(seq, 1, Len(seq) - 1))
             last == seq[Len(seq)]
         IN  IF last \in Range(init) THEN init ELSE Append(init, last)

\* the filteredFields memo: field names referenced by the filter expression
FilteredFields(sf) == IF sf = <<>> THEN <<>> ELSE Dedupe(FieldMatches(sf, 1))

\* filter expressions: absent, `.color=1`, `.size>3&.color`, `x>1` (no field)
NoFilter == <<>>
FilterColor == <<".", "c", "o", "l", "o", "r", "=", "1">>
FilterSizeColor == <<".", "s", "i", "z", "e", ">", "3", "&",
                     ".", "c", "o", "l", "o", "r">>
FilterNoField == <<"x", ">", "1">>
SearchFilters == {NoFilter, FilterColor, FilterSizeColor, FilterNoField}

----------------------------------------------------------------------------
(* Result rows and the result view pipeline *)

\* element identifiers, and their characters
Elements == {"e1", "e2", "E3"}
ElementChars(e) ==
    CASE e = "e1" -> <<"e", "1">>
      [] e = "e2" -> <<"e", "2">>
      [] e = "E3" -> <<"E", "3">>

\* a row is <<element, score>>; scores are in tenths
RowElement(row) == row[1]
RowScore(row) == row[2]
ElementsOf(rows) == {RowElement(rows[i]) : i \in DOMAIN rows}
\* results.map((row) => row[0])
ElementList(rows) == [i \in DOMAIN rows |-> RowElement(rows[i])]

\* String.prototype.toLowerCase, per character
ToLowerChar(c) == IF c \in UpperLetters THEN LowerSeq[IndexOf(UpperSeq, c)] ELSE c
ToLowerCase(cs) == [i \in DOMAIN cs |-> ToLowerChar(cs[i])]

\* String.prototype.trim
RECURSIVE TrimLeft(_)
TrimLeft(cs) ==
    IF cs # <<>> /\ Head(cs) = " " THEN TrimLeft(Tail(cs)) ELSE cs
RECURSIVE TrimRight(_)
TrimRight(cs) ==
    IF cs # <<>> /\ cs[Len(cs)] = " "
    THEN TrimRight(SubSeq(cs, 1, Len(cs) - 1)) ELSE cs
Trim(cs) == TrimRight(TrimLeft(cs))

\* String.prototype.includes
Includes(hay, needle) ==
    \E i \in 1..(Len(hay) - Len(needle) + 1) :
        SubSeq(hay, i, i + Len(needle) - 1) = needle

\* the filter without toLowerCase() on the element identifier
RECURSIVE FilterRowsCaseSensitive(_, _)
FilterRowsCaseSensitive(rows, lowerFilter) ==
    IF rows = <<>> THEN <<>>
    ELSE LET rest == FilterRowsCaseSensitive(Tail(rows), lowerFilter)
         IN  IF Includes(ElementChars(RowElement(Head(rows))), lowerFilter)
             THEN <<Head(rows)>> \o rest
             ELSE rest

\* results.filter((row) => row[0].toLowerCase().includes(lowerFilter))
RECURSIVE FilterRows(_, _)
FilterRows(rows, lowerFilter) ==
    IF rows = <<>> THEN <<>>
    ELSE LET rest == FilterRows(Tail(rows), lowerFilter)
         IN  IF Includes(ToLowerCase(ElementChars(RowElement(Head(rows)))),
                         lowerFilter)
             THEN <<Head(rows)>> \o rest
             ELSE rest

\* the sign of n
Sign(n) == IF n < 0 THEN -1 ELSE IF n > 0 THEN 1 ELSE 0

\* collation weight of a character: digits before letters, case ignored
PrimaryWeight(c) ==
    IF c \in Digits THEN IndexOf(DigitSeq, c)
    ELSE IF c \in LowerLetters THEN 10 + IndexOf(LowerSeq, c)
    ELSE IF c \in UpperLetters THEN 10 + IndexOf(UpperSeq, c)
    ELSE 0
\* lower case sorts before upper case when nothing else differs
CaseWeight(c) == IF c \in UpperLetters THEN 1 ELSE 0

\* lexicographic comparison of two sequences of weights
RECURSIVE LexCompare(_, _)
LexCompare(a, b) ==
    IF a = <<>> /\ b = <<>> THEN 0
    ELSE IF a = <<>> THEN -1
    ELSE IF b = <<>> THEN 1
    ELSE IF Head(a) # Head(b) THEN Sign(Head(a) - Head(b))
         ELSE LexCompare(Tail(a), Tail(b))

PrimaryWeights(cs) == [i \in DOMAIN cs |-> PrimaryWeight(cs[i])]
CaseWeights(cs) == [i \in DOMAIN cs |-> CaseWeight(cs[i])]

\* String.prototype.localeCompare on element identifiers
LocaleCompare(a, b) ==
    LET primary == LexCompare(PrimaryWeights(ElementChars(a)),
                              PrimaryWeights(ElementChars(b)))
    IN  IF primary # 0 THEN primary
        ELSE LexCompare(CaseWeights(ElementChars(a)),
                        CaseWeights(ElementChars(b)))

\* the comparator without its direction
CompareRowsAscendingOnly(a, b, column, direction) ==
    IF column = "element"
    THEN LocaleCompare(RowElement(a), RowElement(b))
    ELSE RowScore(a) - RowScore(b)

\* the comparator handed to sort
CompareRows(a, b, column, direction) ==
    LET comparison == IF column = "element"
                      THEN LocaleCompare(RowElement(a), RowElement(b))
                      ELSE RowScore(a) - RowScore(b)
    IN  IF direction = "asc" THEN comparison ELSE -comparison

\* row inserted into the sorted rows behind every row that does not sort after it
RECURSIVE InsertRow(_, _, _, _)
InsertRow(sorted, row, column, direction) ==
    IF sorted = <<>> THEN <<row>>
    ELSE IF CompareRows(Head(sorted), row, column, direction) > 0
         THEN <<row>> \o sorted
         ELSE <<Head(sorted)>> \o InsertRow(Tail(sorted), row, column, direction)

\* Array.prototype.sort with the comparator: a stable sort
RECURSIVE SortRows(_, _, _)
SortRows(rows, column, direction) ==
    IF rows = <<>> THEN <<>>
    ELSE InsertRow(SortRows(SubSeq(rows, 1, Len(rows) - 1), column, direction),
                   rows[Len(rows)], column, direction)

\* the memo without the early return for sortColumn "none": the comparator's
\* else branch then sorts by score
FilteredAndSortedAlways(rows, text, column, direction) ==
    LET processed == IF Trim(text) # <<>>
                     THEN FilterRows(rows, ToLowerCase(text))
                     ELSE rows
    IN  SortRows(processed, column, direction)

\* the filteredAndSortedResults memo
FilteredAndSortedResults(rows, text, column, direction) ==
    LET processed == IF Trim(text) # <<>>
                     THEN FilterRows(rows, ToLowerCase(text))
                     ELSE rows
    IN  IF column = "none" THEN processed
        ELSE SortRows(processed, column, direction)

----------------------------------------------------------------------------
(* State *)

VARIABLES
    keyName,                     \* prop: the dataset identity
    results,                     \* prop: the raw result list
    searchFilter,                \* prop: the structured filter expression
    showAttributes,              \* setting: attribute display
    showOnlyFilteredAttributes,  \* setting: filtered-only mode
    prefs,                       \* the persisted column visibility preferences
    filterText,
    sortColumn,
    sortDirection,
    editingAttributes,
    pendingCommit,               \* the element of the edit the editor may still commit
    attributeCache,
    isLoadingAttributes,
    filteredFieldValues,
    parsedAttributeCache,
    availableColumns,
    selectMode,
    selectedElements,
    fetches,                     \* the fetchAndProcessAttributes calls awaiting their response
    gen,                         \* history: how many times keyName has changed
    cacheGen,                    \* history: for each raw cache entry, the gen it was written for
    sortCycle,                   \* history: clicks on one column since no sort was active
    lastOp,                      \* history: the operation that led to this state, if tracked
    lastCall                     \* history: the function call whose return value the last step used

vars == <<keyName, results, searchFilter, showAttributes,
          showOnlyFilteredAttributes, prefs, filterText, sortColumn,
          sortDirection, editingAttributes, pendingCommit, attributeCache,
          isLoadingAttributes, filteredFieldValues, parsedAttributeCache,
          availableColumns, selectMode, selectedElements, fetches, gen,
          cacheGen, sortCycle, lastOp, lastCall>>

\* the operations whose last occurrence the history records
TrackedOps ==
    {"KeyNameChange", "FetchComplete", "HandleSelectAll", "HandleSelectToggle",
     "HandleDeselectAll", "HandleExitSelectMode"}

\* an operation and what it was applied to
Op(name, arg) ==
    IF name \in TrackedOps THEN [op |-> name, arg |-> arg]
    ELSE [op |-> "other", arg |-> ""]

\* the last step called none of the functions the history records
NoCall == [fn |-> "none"]

propVars == <<keyName, results, searchFilter>>
settingVars == <<showAttributes, showOnlyFilteredAttributes>>
sortVars == <<sortColumn, sortDirection, sortCycle>>
editVars == <<editingAttributes, pendingCommit>>
selectionVars == <<selectMode, selectedElements>>
cacheVars == <<attributeCache, parsedAttributeCache, cacheGen>>
fetchVars == <<fetches, isLoadingAttributes>>

\* the result lists the parent hands in
ResultLists ==
    { <<>>,
      << <<"e1", 9>> >>,
      << <<"e2", 5>> >>,
      << <<"e1", 9>>, <<"e2", 5>> >> }

FieldNames == {"color", "size"}
SystemNames == {"element", "score"}
ColumnNames == SystemNames \cup FieldNames

----------------------------------------------------------------------------
(* The persisted visibility preferences (useVectorResultsSettings) *)

\* getColumnVisibility(name, defaultVisible)
GetColumnVisibility(p, name, defaultVisible) ==
    IF name \notin DOMAIN p \/ p[name] = "unset" THEN defaultVisible
    ELSE p[name] = "visible"

\* updateAttributeColumnVisibility(name, visible)
UpdateAttributeColumnVisibility(p, name, visible) ==
    [p EXCEPT ![name] = IF visible THEN "visible" ELSE "hidden"]

----------------------------------------------------------------------------
(* Columns *)

Column(name, visible, type) == [name |-> name, visible |-> visible, type |-> type]

IsSystem(col) == col.type = "system"
IsAttribute(col) == col.type = "attribute"

ColumnsOf(cols) == Range(cols)
ColumnNamesOf(cols) == {cols[i].name : i \in DOMAIN cols}
AttributeColumnNames(cols) ==
    {cols[i].name : i \in {j \in DOMAIN cols : IsAttribute(cols[j])}}

\* the reset effect's column list
DefaultColumns(p) ==
    << Column("element", GetColumnVisibility(p, "element", TRUE), "system"),
       Column("score", GetColumnVisibility(p, "score", TRUE), "system") >>

\* prev.filter((col) => col.type === "system")
SystemColumns(cols) == SelectSeq(cols, IsSystem)

\* the column visibility effect
ColumnVisibilityEffect(cols, showA, showOnly, sf) ==
    IF ~showA \/ (showOnly /\ sf = <<>>)
    THEN [i \in DOMAIN cols |->
            [cols[i] EXCEPT !.visible =
                IF IsSystem(cols[i]) THEN cols[i].visible ELSE FALSE]]
    ELSE [i \in DOMAIN cols |->
            IF IsSystem(cols[i]) THEN cols[i]
            ELSE [cols[i] EXCEPT !.visible =
                    ~showOnly \/ (showOnly /\ cols[i].name \in Range(FilteredFields(sf)))]]

\* a toggle that sets every attribute column
SetAttributeColumnsVisible(cols, columnName, visible) ==
    [i \in DOMAIN cols |->
        IF IsAttribute(cols[i]) THEN [cols[i] EXCEPT !.visible = visible]
        ELSE cols[i]]

\* prev.map((c) => (c.name === columnName ? { ...c, visible } : c))
SetColumnVisible(cols, columnName, visible) ==
    [i \in DOMAIN cols |->
        IF cols[i].name = columnName THEN [cols[i] EXCEPT !.visible = visible]
        ELSE cols[i]]

----------------------------------------------------------------------------
(* The attribute fetch *)

\* what fetchAttributes returns when the call throws, is unsuccessful or has no result
NoAttributes == <<"<failure>">>

\* what fetchAttributes can return for a request of n elements, the store
\* holding payloads of P
Responses(P, n) == {NoAttributes} \cup [1..n -> P \cup {Null}]

\* the last position of e in elements among the positions in at
LastIndex(elements, at, e) ==
    CHOOSE i \in at : elements[i] = e /\ \A j \in at : elements[j] = e => j <= i

\* the positions whose payload is present and parses
ParsedAt(attributes) ==
    {i \in DOMAIN attributes : attributes[i] # Null /\ ParseOk(attributes[i])}

\* newCache: the attributeCache of the render that started the fetch, overwritten
NewCache(cache, elements, attributes) ==
    [e \in DOMAIN cache \cup Range(elements) |->
        IF e \in Range(elements)
        THEN attributes[LastIndex(elements, DOMAIN elements, e)]
        ELSE cache[e]]

\* a parsed cache that stops at the first payload that does not parse
NewParsedCacheUntilFailure(elements, attributes) ==
    LET failed == {i \in DOMAIN attributes :
                      attributes[i] # Null /\ ~ParseOk(attributes[i])}
        before == {i \in ParsedAt(attributes) : \A j \in failed : i < j}
    IN  [e \in {elements[i] : i \in before} |->
            Parsed(attributes[LastIndex(elements, before, e)])]

\* newParsedCache: only what this batch parsed
NewParsedCache(elements, attributes) ==
    [e \in {elements[i] : i \in ParsedAt(attributes)} |->
        Parsed(attributes[LastIndex(elements, ParsedAt(attributes), e)])]

\* allAttributeColumns, in insertion order
RECURSIVE KeysUpTo(_, _)
KeysUpTo(attributes, n) ==
    IF n = 0 THEN <<>>
    ELSE KeysUpTo(attributes, n - 1)
         \o (IF n \in ParsedAt(attributes) THEN ParsedKeys(attributes[n]) ELSE <<>>)
AllAttributeColumns(attributes) == Dedupe(KeysUpTo(attributes, Len(attributes)))

\* the attribute columns put in front of the system columns
FetchedColumnsAttributesFirst(prev, attributes, p) ==
    LET names == AllAttributeColumns(attributes)
    IN  [i \in DOMAIN names |->
              Column(names[i], GetColumnVisibility(p, names[i], TRUE), "attribute")]
        \o SystemColumns(prev)

\* the attribute columns of the response appended to every column of prev
FetchedColumnsAppended(prev, attributes, p) ==
    LET names == AllAttributeColumns(attributes)
    IN  prev
        \o [i \in DOMAIN names |->
              Column(names[i], GetColumnVisibility(p, names[i], TRUE), "attribute")]

\* the column list the fetch completion sets
FetchedColumns(prev, attributes, p) ==
    LET names == AllAttributeColumns(attributes)
    IN  SystemColumns(prev)
        \o [i \in DOMAIN names |->
              Column(names[i], GetColumnVisibility(p, names[i], TRUE), "attribute")]

\* a cleanup that cancels nothing
CancelNone(fs) == fs

\* the cleanup of the fetch effect: isCancelled = true
CancelAll(fs) == {[f EXCEPT !.cancelled = TRUE] : f \in fs}

\* the fetch effect without its early return
StartsFetchAlways(showA, rows) == TRUE

\* does the fetch effect start a fetch
StartsFetch(showA, rows) == showA /\ rows # <<>>

\* a fetch effect that asks for the first element only
FetchEffectFirstElement(fs, showA, rows, key, g, cache, cg) ==
    IF StartsFetch(showA, rows)
    THEN CancelAll(fs) \cup
         {[gen |-> g, key |-> key, elements |-> <<RowElement(rows[1])>>,
           cache |-> cache, cacheGen |-> cg, cancelled |-> FALSE]}
    ELSE CancelAll(fs)

\* the fetch effect: the cleanup of the previous run, then the new run
FetchEffect(fs, showA, rows, key, g, cache, cg) ==
    IF StartsFetch(showA, rows)
    THEN CancelAll(fs) \cup
         {[gen |-> g, key |-> key, elements |-> ElementList(rows),
           cache |-> cache, cacheGen |-> cg, cancelled |-> FALSE]}
    ELSE CancelAll(fs)

----------------------------------------------------------------------------
(* The filtered field values effect *)

\* parsedAttributes[field]?.toString() || ""
ValueToString(v) ==
    CASE v = "red" -> "red"
      [] v = "3" -> "3"
      [] v = "x" -> "x"
      [] OTHER -> ""

FieldValues(rows, parsedCache, fields) ==
    [e \in ElementsOf(rows) \cap DOMAIN parsedCache |->
        [f \in Range(fields) |->
            IF f \in DOMAIN parsedCache[e]
            THEN ValueToString(parsedCache[e][f]) ELSE ""]]

\* filteredFieldValues[row[0]]?.[field] || "": what a row shows for a field
DisplayedFieldValue(values, e, f) ==
    IF e \in DOMAIN values /\ f \in DOMAIN values[e] THEN values[e][f] ELSE ""

\* the values kept as they were
FilteredFieldValuesKept(prev, showA, showOnly, sf, rows, parsedCache) == prev

FilteredFieldValuesEffect(prev, showA, showOnly, sf, rows, parsedCache) ==
    IF ~showA \/ ~showOnly \/ FilteredFields(sf) = <<>> THEN prev
    ELSE FieldValues(rows, parsedCache, FilteredFields(sf))

----------------------------------------------------------------------------
(* Initial state: the component mounted with no results yet *)

Init ==
    /\ keyName = "vset:a"
    /\ results = <<>>
    /\ searchFilter = NoFilter
    /\ showAttributes \in BOOLEAN
    /\ showOnlyFilteredAttributes \in BOOLEAN
    /\ prefs = [n \in ColumnNames |-> "unset"]
    /\ filterText = <<>>
    /\ sortColumn = "none"
    /\ sortDirection = "asc"
    /\ editingAttributes = Null
    /\ pendingCommit = Null
    /\ attributeCache = EmptyMap
    /\ isLoadingAttributes = FALSE
    /\ filteredFieldValues = EmptyMap
    /\ parsedAttributeCache = EmptyMap
    /\ availableColumns = DefaultColumns(prefs)
    /\ selectMode = FALSE
    /\ selectedElements = {}
    /\ fetches = {}
    /\ gen = 0
    /\ cacheGen = EmptyMap
    /\ sortCycle = [column |-> "none", clicks |-> 0]
    /\ lastOp = Op("mount", "")
    /\ lastCall = NoCall

\* the table and its controls are only rendered for a non-empty result list
Rendered == results # <<>>

\* the rows on screen
VisibleRows ==
    FilteredAndSortedResults(results, filterText, sortColumn, sortDirection)

----------------------------------------------------------------------------
(* Props changed by the parent *)

\* the effect without its setSelectedElements call
SelectionKept(selected) == selected

\* the selection reset effect: setSelectedElements(new Set())
SelectionResetEffect(selected) == {}

\* keyName changes (the result list may change in the same render):
\* selection reset effect, reset effect, fetch effect, filtered values effect
KeyNameChangeUpTo(k, rows, limit) ==
    /\ k # keyName
    /\ gen < MaxGen
    /\ keyName' = k
    /\ results' = rows
    /\ gen' = gen + 1
    /\ selectMode' = FALSE
    /\ selectedElements' = SelectionResetEffect(selectedElements)
    /\ availableColumns' = DefaultColumns(prefs)
    /\ attributeCache' = EmptyMap
    /\ cacheGen' = EmptyMap
    /\ parsedAttributeCache' = EmptyMap
    /\ editingAttributes' = Null
    /\ pendingCommit' = pendingCommit
    /\ sortColumn' = "none"
    /\ sortDirection' = "asc"
    /\ sortCycle' = [column |-> "none", clicks |-> 0]
    /\ filterText' = <<>>
    /\ fetches' = FetchEffect(fetches, showAttributes, rows, k, gen + 1,
                              attributeCache, cacheGen)
    /\ Cardinality(fetches') <= limit
    /\ isLoadingAttributes' = StartsFetch(showAttributes, rows)
    /\ filteredFieldValues' =
          FilteredFieldValuesEffect(EmptyMap, showAttributes,
              showOnlyFilteredAttributes, searchFilter, rows, EmptyMap)
    /\ lastOp' = Op("KeyNameChange",
                     IF /\ attributeCache # EmptyMap
                        /\ parsedAttributeCache # EmptyMap
                        /\ Len(availableColumns) > 2
                        /\ selectedElements # {}
                        /\ sortColumn # "none"
                     THEN "all set" ELSE "")
    /\ lastCall' = NoCall
    /\ UNCHANGED <<searchFilter, settingVars, prefs>>

\* a keyName change with at most MaxFetches requests awaiting their response
KeyNameChange(k, rows) == KeyNameChangeUpTo(k, rows, MaxFetches)

\* the result list is replaced under the same keyName:
\* fetch effect, filtered values effect
ResultsChangeUpTo(rows, limit) ==
    /\ results' = rows
    /\ fetches' = FetchEffect(fetches, showAttributes, rows, keyName, gen,
                              attributeCache, cacheGen)
    /\ Cardinality(fetches') <= limit
    /\ isLoadingAttributes' =
          (StartsFetch(showAttributes, rows) \/ isLoadingAttributes)
    /\ filteredFieldValues' =
          FilteredFieldValuesEffect(filteredFieldValues, showAttributes,
              showOnlyFilteredAttributes, searchFilter, rows,
              parsedAttributeCache)
    /\ lastOp' = Op("ResultsChange", "")
    /\ lastCall' = NoCall
    /\ UNCHANGED <<keyName, searchFilter, settingVars, prefs, filterText,
                   sortVars, editVars, cacheVars, availableColumns,
                   selectionVars, gen>>

\* a new result list with at most MaxFetches requests awaiting their response
ResultsChange(rows) == ResultsChangeUpTo(rows, MaxFetches)

\* the filter expression changes: column visibility effect, filtered values effect
SearchFilterChange(sf) ==
    /\ sf # searchFilter
    /\ searchFilter' = sf
    /\ availableColumns' =
          ColumnVisibilityEffect(availableColumns, showAttributes,
              showOnlyFilteredAttributes, sf)
    /\ filteredFieldValues' =
          FilteredFieldValuesEffect(filteredFieldValues, showAttributes,
              showOnlyFilteredAttributes, sf, results, parsedAttributeCache)
    /\ lastOp' = Op("SearchFilterChange", "")
    /\ lastCall' = NoCall
    /\ UNCHANGED <<keyName, results, settingVars, prefs, filterText, sortVars,
                   editVars, cacheVars, selectionVars, fetchVars, gen>>

----------------------------------------------------------------------------
(* Settings *)

\* "Show Attributes" menu item: fetch effect, column visibility effect,
\* filtered values effect
SetShowAttributesUpTo(checked, limit) ==
    /\ Rendered /\ ~selectMode
    /\ checked # showAttributes
    /\ showAttributes' = checked
    /\ fetches' = FetchEffect(fetches, checked, results, keyName, gen,
                              attributeCache, cacheGen)
    /\ Cardinality(fetches') <= limit
    /\ isLoadingAttributes' =
          (StartsFetch(checked, results) \/ isLoadingAttributes)
    /\ availableColumns' =
          ColumnVisibilityEffect(availableColumns, checked,
              showOnlyFilteredAttributes, searchFilter)
    /\ filteredFieldValues' =
          FilteredFieldValuesEffect(filteredFieldValues, checked,
              showOnlyFilteredAttributes, searchFilter, results,
              parsedAttributeCache)
    /\ lastOp' = Op("SetShowAttributes", "")
    /\ lastCall' = NoCall
    /\ UNCHANGED <<propVars, showOnlyFilteredAttributes, prefs, filterText,
                   sortVars, editVars, cacheVars, selectionVars, gen>>

\* the menu item with at most MaxFetches requests awaiting their response
SetShowAttributes(checked) == SetShowAttributesUpTo(checked, MaxFetches)

\* "Show Only Filtered Attributes" menu item: column visibility effect,
\* filtered values effect
SetShowOnlyFilteredAttributes(checked) ==
    /\ Rendered /\ ~selectMode /\ showAttributes
    /\ checked # showOnlyFilteredAttributes
    /\ showOnlyFilteredAttributes' = checked
    /\ availableColumns' =
          ColumnVisibilityEffect(availableColumns, showAttributes, checked,
              searchFilter)
    /\ filteredFieldValues' =
          FilteredFieldValuesEffect(filteredFieldValues, showAttributes,
              checked, searchFilter, results, parsedAttributeCache)
    /\ lastOp' = Op("SetShowOnlyFilteredAttributes", "")
    /\ lastCall' = NoCall
    /\ UNCHANGED <<propVars, showAttributes, prefs, filterText, sortVars,
                   editVars, cacheVars, selectionVars, fetchVars, gen>>

\* handleToggleColumn, from a switch of the attribute columns dialog; persisted
\* says whether updateAttributeColumnVisibility stored the preference
ToggleColumn(columnName, visible, persisted) ==
    /\ Rendered
    /\ \E i \in DOMAIN availableColumns :
          /\ IsAttribute(availableColumns[i])
          /\ availableColumns[i].name = columnName
          /\ availableColumns[i].visible = ~visible
    /\ availableColumns' = SetColumnVisible(availableColumns, columnName, visible)
    /\ prefs' = IF persisted
                THEN UpdateAttributeColumnVisibility(prefs, columnName, visible)
                ELSE prefs
    /\ lastOp' = Op("HandleToggleColumn", columnName)
    /\ lastCall' = NoCall
    /\ UNCHANGED <<propVars, settingVars, filterText, sortVars,
                   editVars, cacheVars, filteredFieldValues,
                   selectionVars, fetchVars, gen>>

\* handleToggleColumn, the preference stored
HandleToggleColumn(columnName, visible) == ToggleColumn(columnName, visible, TRUE)

\* handleToggleColumn, the preference not stored
HandleToggleColumnNotPersisted(columnName, visible) ==
    ToggleColumn(columnName, visible, FALSE)

\* the checkbox item of a system column in the options menu
ToggleSystemColumn(columnName, checked) ==
    /\ Rendered /\ ~selectMode
    /\ \E i \in DOMAIN availableColumns :
          /\ IsSystem(availableColumns[i])
          /\ availableColumns[i].name = columnName
          /\ availableColumns[i].visible = ~checked
    /\ availableColumns' = SetColumnVisible(availableColumns, columnName, checked)
    /\ prefs' = UpdateAttributeColumnVisibility(prefs, columnName, checked)
    /\ lastOp' = Op("ToggleSystemColumn", columnName)
    /\ lastCall' = NoCall
    /\ UNCHANGED <<propVars, settingVars, filterText, sortVars,
                   editVars, cacheVars, filteredFieldValues,
                   selectionVars, fetchVars, gen>>

----------------------------------------------------------------------------
(* Completion of a fetch *)

\* the check without its isCancelled half
DiscardedOnlyOnFailure(f, response) == response = NoAttributes

\* the check without its !attributes half
DiscardedOnlyOnCancel(f, response) == f.cancelled

\* if (isCancelled || !attributes) return
Discarded(f, response) == f.cancelled \/ response = NoAttributes

\* the history of newCache: the entries of this batch are the fetch's own
NewCacheGen(f) ==
    [e \in DOMAIN f.cacheGen \cup Range(f.elements) |->
        IF e \in Range(f.elements) THEN f.gen ELSE f.cacheGen[e]]

\* the response of fetch f arrives: the rest of fetchAndProcessAttributes,
\* then the filtered values effect
FetchComplete(f, response) ==
    /\ f \in fetches
    /\ fetches' = fetches \ {f}
    /\ isLoadingAttributes' = IF f.cancelled THEN isLoadingAttributes ELSE FALSE
    /\ IF Discarded(f, response)
       THEN UNCHANGED <<cacheVars, availableColumns, filteredFieldValues>>
       ELSE /\ attributeCache' = NewCache(f.cache, f.elements, response)
            /\ cacheGen' = NewCacheGen(f)
            /\ parsedAttributeCache' = NewParsedCache(f.elements, response)
            /\ availableColumns' = FetchedColumns(availableColumns, response, prefs)
            /\ filteredFieldValues' =
                  FilteredFieldValuesEffect(filteredFieldValues, showAttributes,
                      showOnlyFilteredAttributes, searchFilter, results,
                      parsedAttributeCache')
    /\ lastOp' = Op("FetchComplete",
                     IF response = NoAttributes THEN "failed"
                     ELSE IF f.gen # gen THEN "stale"
                     ELSE IF f.cancelled THEN "cancelled"
                     ELSE "applied")
    /\ lastCall' = IF Discarded(f, response) THEN NoCall
                   ELSE [fn |-> "fetchAttributes", elements |-> f.elements,
                         ret |-> response]
    /\ UNCHANGED <<propVars, settingVars, prefs, filterText, sortVars,
                   editVars, selectionVars, gen>>

----------------------------------------------------------------------------
(* The attribute editor *)

\* an "Edit attributes" button of a row
OpenEditor(element) ==
    /\ Rendered /\ ~selectMode
    /\ element \in ElementsOf(VisibleRows)
    /\ editingAttributes' = element
    /\ pendingCommit' = element
    /\ lastOp' = Op("OpenEditor", element)
    /\ lastCall' = NoCall
    /\ UNCHANGED <<propVars, settingVars, prefs, filterText, sortVars,
                   cacheVars, filteredFieldValues, availableColumns,
                   selectionVars, fetchVars, gen>>

\* the commit without its column merge
EditedColumnsNotMerged(prev, keys) == prev

\* the columns after the editor's payload brought the field names keys
RECURSIVE EditedColumns(_, _)
EditedColumns(prev, keys) ==
    IF keys = <<>> THEN prev
    ELSE LET sofar == EditedColumns(prev, SubSeq(keys, 1, Len(keys) - 1))
             colName == keys[Len(keys)]
         IN  IF colName \in ColumnNamesOf(prev) THEN sofar
             ELSE Append(sofar, Column(colName, TRUE, "attribute"))

\* handleAttributesDialogClose(updatedAttributes) as created by a render in
\* which editingAttributes was edited: Null is a cancelled edit, or no editor
\* open in that render; then the filtered values effect
DialogClose(edited, updatedAttributes) ==
    /\ updatedAttributes \in Payloads \cup {Null}
    /\ editingAttributes' = Null
    /\ pendingCommit' = Null
    /\ IF updatedAttributes = Null \/ edited = Null
       THEN UNCHANGED <<cacheVars, availableColumns, filteredFieldValues>>
       ELSE /\ attributeCache' =
                  [e \in DOMAIN attributeCache \cup {edited} |->
                      IF e = edited THEN updatedAttributes
                      ELSE attributeCache[e]]
            /\ cacheGen' =
                  [e \in DOMAIN cacheGen \cup {edited} |->
                      IF e = edited THEN gen ELSE cacheGen[e]]
            /\ IF ParseOk(updatedAttributes)
               THEN /\ parsedAttributeCache' =
                          [e \in DOMAIN parsedAttributeCache \cup {edited} |->
                              IF e = edited THEN Parsed(updatedAttributes)
                              ELSE parsedAttributeCache[e]]
                    /\ availableColumns' =
                          EditedColumns(availableColumns, ParsedKeys(updatedAttributes))
               ELSE UNCHANGED <<parsedAttributeCache, availableColumns>>
            /\ filteredFieldValues' =
                  FilteredFieldValuesEffect(filteredFieldValues, showAttributes,
                      showOnlyFilteredAttributes, searchFilter, results,
                      parsedAttributeCache')
    /\ lastOp' = Op("HandleAttributesDialogClose", IF updatedAttributes = Null THEN "cancelled" ELSE "saved")
    /\ lastCall' = NoCall
    /\ UNCHANGED <<propVars, settingVars, prefs, filterText, sortVars,
                   selectionVars, fetchVars, gen>>

\* the editor closes while it is open
HandleAttributesDialogClose(updatedAttributes) ==
    /\ editingAttributes # Null
    /\ DialogClose(editingAttributes, updatedAttributes)

\* the editor hands over its result after the reset has closed it: through
\* the handler of the render in which the edit was open (stale), or through
\* the handler of the current render, in which no editor is open
LateDialogClose(updatedAttributes, stale) ==
    /\ editingAttributes = Null
    /\ pendingCommit # Null
    /\ DialogClose(IF stale THEN pendingCommit ELSE Null, updatedAttributes)

----------------------------------------------------------------------------
(* Selection *)

\* the "Select" button
EnterSelectMode ==
    /\ Rendered /\ ~selectMode
    /\ selectMode' = TRUE
    /\ lastOp' = Op("EnterSelectMode", "")
    /\ lastCall' = NoCall
    /\ UNCHANGED <<propVars, settingVars, prefs, filterText, sortVars,
                   editVars, cacheVars, filteredFieldValues,
                   availableColumns, selectedElements, fetchVars, gen>>

\* a toggle that only ever adds
ToggledAdds(selected, element) == selected \cup {element}

\* the selection after handleSelectToggle(element)
Toggled(selected, element) ==
    IF element \in selected THEN selected \ {element}
    ELSE selected \cup {element}

HandleSelectToggle(element) ==
    /\ Rendered /\ selectMode
    /\ element \in ElementsOf(VisibleRows)
    /\ selectedElements' = Toggled(selectedElements, element)
    /\ lastOp' = Op("HandleSelectToggle", element)
    /\ lastCall' = NoCall
    /\ UNCHANGED <<propVars, settingVars, prefs, filterText, sortVars,
                   editVars, cacheVars, filteredFieldValues,
                   availableColumns, selectMode, fetchVars, gen>>

\* select all adds to the selection it finds
SelectAllAdds(selected, rows) == selected \cup ElementsOf(rows)

\* new Set(filteredAndSortedResults.map((row) => row[0]))
SelectAll(selected, rows) == ElementsOf(rows)

HandleSelectAll ==
    /\ Rendered /\ selectMode
    /\ selectedElements' = SelectAll(selectedElements, VisibleRows)
    /\ lastOp' = Op("HandleSelectAll", "")
    /\ lastCall' = NoCall
    /\ UNCHANGED <<propVars, settingVars, prefs, filterText, sortVars,
                   editVars, cacheVars, filteredFieldValues,
                   availableColumns, selectMode, fetchVars, gen>>

HandleDeselectAll ==
    /\ Rendered /\ selectMode
    /\ selectedElements' = {}
    /\ lastOp' = Op("HandleDeselectAll", "")
    /\ lastCall' = NoCall
    /\ UNCHANGED <<propVars, settingVars, prefs, filterText, sortVars,
                   editVars, cacheVars, filteredFieldValues,
                   availableColumns, selectMode, fetchVars, gen>>

\* select mode left with the selection kept
ExitSelectModeOnly ==
    /\ Rendered /\ selectMode
    /\ selectMode' = FALSE
    /\ lastOp' = Op("HandleExitSelectMode", "")
    /\ lastCall' = NoCall
    /\ UNCHANGED <<propVars, settingVars, prefs, filterText, sortVars,
                   editVars, cacheVars, filteredFieldValues,
                   availableColumns, selectedElements, fetchVars, gen>>

HandleExitSelectMode ==
    /\ Rendered /\ selectMode
    /\ selectMode' = FALSE
    /\ selectedElements' = {}
    /\ lastOp' = Op("HandleExitSelectMode", "")
    /\ lastCall' = NoCall
    /\ UNCHANGED <<propVars, settingVars, prefs, filterText, sortVars,
                   editVars, cacheVars, filteredFieldValues,
                   availableColumns, fetchVars, gen>>

\* handleBulkDelete: the parent is told, the selection is emptied; the parent
\* replaces the result list later (ResultsChange)
HandleBulkDelete ==
    /\ Rendered /\ selectMode
    /\ selectedElements # {}
    /\ selectedElements' = {}
    /\ lastOp' = Op("HandleBulkDelete", "")
    /\ lastCall' = NoCall
    /\ UNCHANGED <<propVars, settingVars, prefs, filterText, sortVars,
                   editVars, cacheVars, filteredFieldValues,
                   availableColumns, selectMode, fetchVars, gen>>

----------------------------------------------------------------------------
(* Sorting *)

\* a two-state cycle: descending goes back to ascending
SortAfterTwoState(column, sc, sd) ==
    IF sc = column
    THEN IF sd = "asc" THEN <<sc, "desc">> ELSE <<sc, "asc">>
    ELSE <<column, "asc">>

\* a click on another column keeps the direction it finds
SortAfterKeepsDirection(column, sc, sd) ==
    IF sc = column
    THEN IF sd = "asc" THEN <<sc, "desc">>
         ELSE IF sd = "desc" THEN <<"none", sd>>
         ELSE <<sc, sd>>
    ELSE <<column, sd>>

\* <<sortColumn, sortDirection>> after handleSort(column)
SortAfter(column, sc, sd) ==
    IF sc = column
    THEN IF sd = "asc" THEN <<sc, "desc">>
         ELSE IF sd = "desc" THEN <<"none", sd>>
         ELSE <<sc, sd>>
    ELSE <<column, "asc">>

\* history: the clicks on one column in a row since no sort was active
\* (the fourth click is the first of the next cycle)
CycleAfter(column, sc, cycle) ==
    IF cycle.column = column /\ cycle.clicks \in 1..3
    THEN [column |-> column, clicks |-> cycle.clicks + 1]
    ELSE IF cycle.column = column /\ cycle.clicks = 4
    THEN [column |-> column, clicks |-> 2]
    ELSE IF sc = "none" THEN [column |-> column, clicks |-> 1]
    ELSE [column |-> column, clicks |-> 0]

\* a click on the header of a visible system column
HandleSort(column) ==
    /\ Rendered
    /\ \E i \in DOMAIN availableColumns :
          /\ IsSystem(availableColumns[i])
          /\ availableColumns[i].name = column
          /\ availableColumns[i].visible
    /\ sortColumn' = SortAfter(column, sortColumn, sortDirection)[1]
    /\ sortDirection' = SortAfter(column, sortColumn, sortDirection)[2]
    /\ sortCycle' = CycleAfter(column, sortColumn, sortCycle)
    /\ lastOp' = Op("HandleSort", column)
    /\ lastCall' = NoCall
    /\ UNCHANGED <<propVars, settingVars, prefs, filterText,
                   editVars, cacheVars, filteredFieldValues,
                   availableColumns, selectionVars, fetchVars, gen>>

----------------------------------------------------------------------------
(* The result view pipeline as a function *)

\* a header checkbox that is checked for any non-empty selection
HeaderCheckedAnySelected(selected, rows) ==
    selected # {} /\ Len(rows) > 0

\* the checked expression of the header checkbox:
\* selectedElements.size === filteredAndSortedResults.length && length > 0
HeaderChecked(selected, rows) ==
    Cardinality(selected) = Len(rows) /\ Len(rows) > 0

\* the filteredAndSortedResults memo evaluated over the current result list
\* and sort state for a free-text filter
RenderRows(text) ==
    /\ lastCall' = [fn |-> "filteredAndSortedResults", rows |-> results,
                    text |-> text, column |-> sortColumn,
                    direction |-> sortDirection,
                    ret |-> FilteredAndSortedResults(results, text, sortColumn,
                                                     sortDirection)]
    /\ lastOp' = Op("RenderRows", "")
    /\ UNCHANGED <<propVars, settingVars, prefs, filterText, sortVars,
                   editVars, cacheVars, filteredFieldValues,
                   availableColumns, selectionVars, fetchVars, gen>>

----------------------------------------------------------------------------

(* The VINFO multi command (vinfo_multi/command.ts) *)

\* how many key names a request body carries at most
MaxKeyNames == 3

\* key names a request can carry; validateKeyName accepts the first two
KeyNameInputs == {"vset:a", "vset:b", "", "bad key"}

\* validateKeyName(keyName)
ValidateKeyName(k) == k \in {"vset:a", "vset:b"}

\* JavaScript values of body.keyNames
JsUndefined == [type |-> "undefined"]
JsNull == [type |-> "null"]
JsString(s) == [type |-> "string", value |-> s]
JsBoolean(b) == [type |-> "boolean", value |-> b]
JsObject == [type |-> "object"]
JsArray(items) == [type |-> "array", items |-> items]

\* is v truthy
Truthy(v) ==
    CASE v.type \in {"undefined", "null"} -> FALSE
      [] v.type = "string" -> v.value # ""
      [] v.type = "boolean" -> v.value
      [] OTHER -> TRUE

\* Array.isArray(v)
IsArray(v) == v.type = "array"

\* the request bodies handed to validateVinfoMultiRequest
KeyNamesValues ==
    {JsUndefined, JsNull, JsString(""), JsString("vset:a"), JsObject}
        \cup {JsArray(items) :
                items \in UNION {[1..n -> KeyNameInputs] : n \in 0..MaxKeyNames}}
ReturnCommandOnlyValues == {JsUndefined, JsBoolean(TRUE), JsString("true")}
Bodies ==
    [keyNames : KeyNamesValues, returnCommandOnly : ReturnCommandOnlyValues]

\* the first key name of items that validateKeyName refuses, at or after position i
RECURSIVE FirstInvalid(_, _)
FirstInvalid(items, i) ==
    IF i > Len(items) THEN 0
    ELSE IF ~ValidateKeyName(items[i]) THEN i
    ELSE FirstInvalid(items, i + 1)

\* what validateVinfoMultiRequest returns for a valid body
ValidResult(body) ==
    [isValid |-> TRUE,
     value |-> [keyNames |-> body.keyNames.items,
                returnCommandOnly |-> (body.returnCommandOnly = JsBoolean(TRUE))]]

\* a validation in which only the first key name is looked at
ValidateFirstKeyOnly(body) ==
    IF ~Truthy(body.keyNames) \/ ~IsArray(body.keyNames)
       \/ Len(body.keyNames.items) = 0
    THEN [isValid |-> FALSE,
          error |-> <<"Key names array is required and must not be empty">>]
    ELSE IF ~ValidateKeyName(body.keyNames.items[1])
         THEN [isValid |-> FALSE,
               error |-> <<"Invalid key name: ", body.keyNames.items[1]>>]
         ELSE ValidResult(body)

\* a validation that lets the empty array through
ValidateAllowsEmpty(body) ==
    IF ~Truthy(body.keyNames) \/ ~IsArray(body.keyNames)
    THEN [isValid |-> FALSE,
          error |-> <<"Key names array is required and must not be empty">>]
    ELSE LET bad == FirstInvalid(body.keyNames.items, 1)
         IN  IF bad # 0
             THEN [isValid |-> FALSE,
                   error |-> <<"Invalid key name: ", body.keyNames.items[bad]>>]
             ELSE ValidResult(body)

\* validateVinfoMultiRequest(body)
ValidateVinfoMultiRequest(body) ==
    IF ~Truthy(body.keyNames) \/ ~IsArray(body.keyNames)
       \/ Len(body.keyNames.items) = 0
    THEN [isValid |-> FALSE,
          error |-> <<"Key names array is required and must not be empty">>]
    ELSE LET bad == FirstInvalid(body.keyNames.items, 1)
         IN  IF bad # 0
             THEN [isValid |-> FALSE,
                   error |-> <<"Invalid key name: ", body.keyNames.items[bad]>>]
             ELSE ValidResult(body)

\* a command list with one command per distinct key name
BuildVinfoMultiCommandDeduped(request) ==
    LET names == Dedupe(request.keyNames)
    IN  [i \in DOMAIN names |-> <<"VINFO", names[i]>>]

\* buildVinfoMultiCommand(request)
BuildVinfoMultiCommand(request) ==
    [i \in DOMAIN request.keyNames |-> <<"VINFO", request.keyNames[i]>>]

\* a request body is validated
ValidateRequest(body) ==
    /\ lastCall' = [fn |-> "validateVinfoMultiRequest", body |-> body,
                    ret |-> ValidateVinfoMultiRequest(body)]
    /\ lastOp' = Op("ValidateRequest", "")
    /\ UNCHANGED <<propVars, settingVars, prefs, filterText, sortVars,
                   editVars, cacheVars, filteredFieldValues,
                   availableColumns, selectionVars, fetchVars, gen>>

\* the command list is built from the value the validation has just returned
BuildCommand ==
    /\ lastCall.fn = "validateVinfoMultiRequest"
    /\ lastCall.ret.isValid
    /\ lastCall' = [fn |-> "buildVinfoMultiCommand", body |-> lastCall.body,
                    request |-> lastCall.ret.value,
                    ret |-> BuildVinfoMultiCommand(lastCall.ret.value)]
    /\ lastOp' = Op("BuildCommand", "")
    /\ UNCHANGED <<propVars, settingVars, prefs, filterText, sortVars,
                   editVars, cacheVars, filteredFieldValues,
                   availableColumns, selectionVars, fetchVars, gen>>

----------------------------------------------------------------------------

(* The referenced fields as a function of the filter expression *)

\* how long a filter expression built from FilterChars is at most
MaxFilterLen == 6

\* the characters of a filter expression: the marker, identifier starts,
\* a digit and a character that belongs to no identifier
FilterChars == {".", "a", "B", "_", "1", "="}

\* the filter expression the memo was last evaluated for
CurrentExpression ==
    IF lastCall.fn = "filteredFields" THEN lastCall.searchFilter ELSE <<>>

\* the filter expressions the prop takes next: one of SearchFilters, or the
\* current expression with one more character
FilterExpressions ==
    SearchFilters \cup
    {Append(CurrentExpression, c) :
        c \in IF Len(CurrentExpression) < MaxFilterLen THEN FilterChars ELSE {}}

\* the filteredFields memo evaluated for a filter expression
ExtractFields(sf) ==
    /\ lastCall' = [fn |-> "filteredFields", searchFilter |-> sf,
                    ret |-> FilteredFields(sf)]
    /\ lastOp' = Op("ExtractFields", "")
    /\ UNCHANGED <<propVars, settingVars, prefs, filterText, sortVars,
                   editVars, cacheVars, filteredFieldValues,
                   availableColumns, selectionVars, fetchVars, gen>>

----------------------------------------------------------------------------

(* Specifications *)

\* the attribute cache and the fetches over result lists of up to two
\* elements, with filtered-only mode off and the preferences untouched
CacheResultLists ==
    { <<>>,
      << <<"e1", 9>> >>,
      << <<"e1", 9>>, <<"e2", 5>> >> }

CachePayloads == {PayloadColor}

InitCache == Init /\ ~showOnlyFilteredAttributes

NextCache ==
    \/ \E k \in Keys, rows \in CacheResultLists : KeyNameChange(k, rows)
    \/ \E rows \in CacheResultLists : ResultsChange(rows)
    \/ \E b \in BOOLEAN : SetShowAttributes(b)
    \/ \E f \in fetches : \E r \in Responses(CachePayloads, Len(f.elements)) :
          FetchComplete(f, r)
    \/ \E e \in {"e1"} : OpenEditor(e)
    \/ \E p \in {PayloadSize, Null} : HandleAttributesDialogClose(p)

SpecCache == InitCache /\ [][NextCache]_vars

\* the column list under every operation that reads or writes it, over
\* result lists of one element
ColumnResultLists ==
    { << <<"e1", 9>> >> }

ColumnPayloads == {PayloadColor, PayloadSize}
ColumnFilters == {NoFilter, FilterColor}

NextColumns ==
    \/ \E k \in Keys, rows \in ColumnResultLists : KeyNameChange(k, rows)
    \/ \E rows \in ColumnResultLists : ResultsChange(rows)
    \/ \E sf \in ColumnFilters : SearchFilterChange(sf)
    \/ \E b \in BOOLEAN : SetShowAttributes(b)
    \/ \E b \in BOOLEAN : SetShowOnlyFilteredAttributes(b)
    \/ \E n \in {"color"}, b \in BOOLEAN : HandleToggleColumn(n, b)
    \/ \E f \in fetches : \E r \in Responses(ColumnPayloads, Len(f.elements)) :
          FetchComplete(f, r)
    \/ \E e \in Elements : OpenEditor(e)
    \/ \E p \in ColumnPayloads \cup {Null} : HandleAttributesDialogClose(p)

SpecColumns == Init /\ [][NextColumns]_vars

\* selection, sorting and the editor over the result list, with attribute
\* display off
InitView == Init /\ ~showAttributes /\ ~showOnlyFilteredAttributes

NextView ==
    \/ \E k \in Keys, rows \in ResultLists : KeyNameChange(k, rows)
    \/ \E rows \in ResultLists : ResultsChange(rows)
    \/ \E n \in SystemNames, b \in BOOLEAN : ToggleSystemColumn(n, b)
    \/ EnterSelectMode
    \/ \E e \in Elements : HandleSelectToggle(e)
    \/ HandleSelectAll
    \/ HandleDeselectAll
    \/ HandleExitSelectMode
    \/ HandleBulkDelete
    \/ \E c \in SystemNames : HandleSort(c)
    \/ \E e \in {"e1"} : OpenEditor(e)
    \/ \E p \in {PayloadColor, Null} : HandleAttributesDialogClose(p)

SpecView == InitView /\ [][NextView]_vars

\* the result view pipeline over result lists of three rows, in an order
\* that is sorted by neither column, with equal scores and mixed case
PipelineResultLists ==
    { << <<"E3", 2>>, <<"e1", 9>>, <<"e2", 5>> >>,
      << <<"e2", 5>>, <<"e1", 5>>, <<"E3", 9>> >>,
      << <<"e2", 5>>, <<"e1", 9>> >>,
      <<>> }

\* free-text filters
FilterTexts ==
    { <<>>, <<" ">>, <<"e">>, <<"E">>, <<"e", "1">>, <<" ", "e", "1">>,
      <<"e", "1", " ">>, <<"3">>, <<"x">> }

NextPipeline ==
    \/ \E rows \in PipelineResultLists : ResultsChange(rows)
    \/ \E c \in SystemNames : HandleSort(c)
    \/ \E text \in FilterTexts : RenderRows(text)

SpecPipeline == InitView /\ [][NextPipeline]_vars

\* validation and command building over every request body
NextCommand ==
    \/ \E body \in Bodies : ValidateRequest(body)
    \/ BuildCommand

SpecCommand == InitView /\ [][NextCommand]_vars

\* fetch completions over payloads that parse and payloads that do not
FetchPayloads == {PayloadColor, PayloadBad}

NextFetch ==
    \/ \E k \in Keys, rows \in CacheResultLists : KeyNameChange(k, rows)
    \/ \E rows \in CacheResultLists : ResultsChange(rows)
    \/ \E b \in BOOLEAN : SetShowAttributes(b)
    \/ \E f \in fetches : \E r \in Responses(FetchPayloads, Len(f.elements)) :
          FetchComplete(f, r)

SpecFetch == InitCache /\ [][NextFetch]_vars

\* fetches that overlap: one more request may await its response than in the
\* other specifications, over the empty result list and a list of one element
OverlapResultLists ==
    { <<>>,
      << <<"e1", 9>> >> }

MaxOverlap == MaxFetches + 1

NextOverlap ==
    \/ \E k \in Keys, rows \in OverlapResultLists :
          KeyNameChangeUpTo(k, rows, MaxOverlap)
    \/ \E rows \in OverlapResultLists : ResultsChangeUpTo(rows, MaxOverlap)
    \/ \E b \in BOOLEAN : SetShowAttributesUpTo(b, MaxOverlap)
    \/ \E f \in fetches : \E r \in Responses(CachePayloads, Len(f.elements)) :
          FetchComplete(f, r)

SpecOverlap == InitCache /\ [][NextOverlap]_vars

\* the column dialog over attribute columns brought by fetches and edits,
\* the preference store taking or refusing what a toggle writes
NextToggle ==
    \/ \E rows \in ColumnResultLists : ResultsChange(rows)
    \/ \E b \in BOOLEAN : SetShowAttributes(b)
    \/ \E f \in fetches : \E r \in Responses(ColumnPayloads, Len(f.elements)) :
          FetchComplete(f, r)
    \/ \E e \in Elements : OpenEditor(e)
    \/ \E p \in ColumnPayloads \cup {Null} : HandleAttributesDialogClose(p)
    \/ \E n \in FieldNames, b \in BOOLEAN : HandleToggleColumn(n, b)
    \/ \E n \in FieldNames, b \in BOOLEAN : HandleToggleColumnNotPersisted(n, b)

SpecToggle == InitCache /\ [][NextToggle]_vars

\* payloads with a field named like a system column, through fetches, the
\* editor and the column dialog
NamePayloads == {PayloadElement, PayloadColor}

NextNames ==
    \/ \E rows \in ColumnResultLists : ResultsChange(rows)
    \/ \E b \in BOOLEAN : SetShowAttributes(b)
    \/ \E f \in fetches : \E r \in Responses(NamePayloads, Len(f.elements)) :
          FetchComplete(f, r)
    \/ \E e \in Elements : OpenEditor(e)
    \/ \E p \in NamePayloads \cup {Null} : HandleAttributesDialogClose(p)
    \/ \E n \in {"element", "color"}, b \in BOOLEAN : HandleToggleColumn(n, b)

SpecNames == InitCache /\ [][NextNames]_vars

\* the selection handlers and the sort over the result list a dataset came
\* with, the result list not replaced under the same keyName
NextHeader ==
    \/ \E k \in Keys, rows \in ResultLists : KeyNameChange(k, rows)
    \/ EnterSelectMode
    \/ \E e \in Elements : HandleSelectToggle(e)
    \/ HandleSelectAll
    \/ HandleDeselectAll
    \/ HandleExitSelectMode
    \/ \E c \in SystemNames : HandleSort(c)

SpecHeader == InitView /\ [][NextHeader]_vars

\* the attribute editor across dataset changes: the editor may hand over its
\* result after the reset has closed it
EditorPayloads == {PayloadColor}

NextEditor ==
    \/ \E k \in Keys, rows \in ResultLists : KeyNameChange(k, rows)
    \/ \E rows \in ResultLists : ResultsChange(rows)
    \/ \E e \in Elements : OpenEditor(e)
    \/ \E p \in EditorPayloads \cup {Null} : HandleAttributesDialogClose(p)
    \/ \E p \in EditorPayloads \cup {Null}, stale \in BOOLEAN :
          LateDialogClose(p, stale)

SpecEditor == InitView /\ [][NextEditor]_vars

\* the referenced fields of the filter expressions over FilterChars of up to
\* MaxFilterLen characters, and of SearchFilters
NextFields == \E sf \in FilterExpressions : ExtractFields(sf)

SpecFields == InitView /\ [][NextFields]_vars

----------------------------------------------------------------------------
(* Properties *)

\* C1: a fetch started under an earlier dataset identity whose response
\* arrives after keyName has changed changes none of the raw cache, the
\* parsed cache and the column list.
C1_StaleFetchDiscarded ==
    [][\A f \in fetches :
          (f \notin fetches' /\ gen' = gen /\ f.gen # gen)
          => UNCHANGED <<attributeCache, parsedAttributeCache, availableColumns>>]_vars

\* a successful response of a fetch of an earlier dataset identity has arrived
C1_Witness ==
    /\ lastOp = Op("FetchComplete", "stale")
    /\ gen > 0

\* C2 (as claimed): every raw cache entry was written by a fetch or an edit
\* issued for the current dataset identity.
C2_NoEntryOfPreviousDataset ==
    \A e \in DOMAIN attributeCache : cacheGen[e] = gen

\* the state a keyName change leaves behind
IsReset ==
    /\ attributeCache = EmptyMap
    /\ parsedAttributeCache = EmptyMap
    /\ Len(availableColumns) = 2
    /\ availableColumns[1].name = "element" /\ IsSystem(availableColumns[1])
    /\ availableColumns[2].name = "score" /\ IsSystem(availableColumns[2])
    /\ selectedElements = {}
    /\ sortColumn = "none"
    /\ filterText = <<>>

\* C3: a keyName change empties the raw cache and the parsed cache, leaves
\* exactly the two system columns, empties the selection, sets the sort column
\* to "none" and empties the free-text filter, all in the one step.
C3_KeyNameChangeResets == [][gen' # gen => IsReset']_vars

\* a keyName change has just reset a state in which the caches, the attribute
\* columns, the selection and the sort column were all set
C3_Witness ==
    /\ lastOp = Op("KeyNameChange", "all set")
    /\ IsReset

\* C4 (as claimed): the selection is a subset of the element identifiers of
\* the current raw result list.
C4_SelectionWithinResults == selectedElements \subseteq ElementsOf(results)

\* C5 (as claimed): while keyName stays the same, an attribute column in the
\* column list stays in the column list.
C5_ColumnsOnlyGrow ==
    [][gen' = gen =>
          AttributeColumnNames(availableColumns)
              \subseteq AttributeColumnNames(availableColumns')]_vars

\* C6: every field name of every parsed cache entry names a column of the
\* column list.
C6_ParsedFieldsHaveColumns ==
    \A e \in DOMAIN parsedAttributeCache :
        DOMAIN parsedAttributeCache[e] \subseteq ColumnNamesOf(availableColumns)

\* a parsed entry has a field whose column is hidden
C6_Witness ==
    \E e \in DOMAIN parsedAttributeCache :
        \E i \in DOMAIN availableColumns :
            /\ availableColumns[i].name \in DOMAIN parsedAttributeCache[e]
            /\ IsAttribute(availableColumns[i])
            /\ ~availableColumns[i].visible

\* C7: the column list begins with the system column element followed by the
\* system column score, and every column behind them is an attribute column.
C7_SystemColumnsFirst ==
    /\ Len(availableColumns) >= 2
    /\ availableColumns[1].name = "element" /\ IsSystem(availableColumns[1])
    /\ availableColumns[2].name = "score" /\ IsSystem(availableColumns[2])
    /\ \A i \in DOMAIN availableColumns : i > 2 => IsAttribute(availableColumns[i])

\* two attribute columns, one of them hidden, stand behind the system columns
C7_Witness ==
    /\ Len(availableColumns) = 4
    /\ \E i \in 3..4 : ~availableColumns[i].visible

\* filtered-only mode is in force over a non-empty set of referenced fields
OverrideActive ==
    /\ showAttributes
    /\ showOnlyFilteredAttributes
    /\ FilteredFields(searchFilter) # <<>>

\* C8 (as claimed): while filtered-only mode is in force, an attribute column
\* is visible iff the filter expression references its name.
C8_OverrideWins ==
    OverrideActive =>
        \A i \in DOMAIN availableColumns :
            IsAttribute(availableColumns[i]) =>
                (availableColumns[i].visible
                    <=> availableColumns[i].name \in Range(FilteredFields(searchFilter)))

\* filtered-only mode restricts the columns: it is on, and a filter expression is present
ModeRestricts ==
    showAttributes /\ showOnlyFilteredAttributes /\ searchFilter # <<>>

\* C9 (as claimed): when filtered-only mode is switched off, or the filter
\* expression is removed, every attribute column shows its persisted visibility.
C9_VisibilityRestored ==
    [][(ModeRestricts /\ ~ModeRestricts' /\ showAttributes' /\ gen' = gen) =>
          \A i \in DOMAIN availableColumns' :
              IsAttribute(availableColumns'[i]) =>
                  (availableColumns'[i].visible
                      = GetColumnVisibility(prefs', availableColumns'[i].name, TRUE))]_vars

\* C10: starting from no active sort, the first click on a system column
\* sorts ascending on it, the second descending, the third gives no active
\* sort, and the fourth ascending again.
C10_ThreeStateSortCycle ==
    /\ sortCycle.clicks \in {1, 4} =>
          (sortColumn = sortCycle.column /\ sortDirection = "asc")
    /\ sortCycle.clicks = 2 =>
          (sortColumn = sortCycle.column /\ sortDirection = "desc")
    /\ sortCycle.clicks = 3 => sortColumn = "none"

\* the score column has been clicked four times in a row
C10_Witness ==
    /\ sortCycle = [column |-> "score", clicks |-> 4]
    /\ sortColumn = "score"

\* C11: a click on a sortable column that is not the active sort column sets
\* the sort state to that column, ascending, whatever the column and the
\* direction were before (the clicked column is the one the click history
\* names after the step).
C11_OtherColumnStartsAscending ==
    [][(/\ gen' = gen
        /\ <<sortColumn, sortDirection>>' # <<sortColumn, sortDirection>>
        /\ sortCycle'.column # sortColumn)
       => (sortColumn' = sortCycle'.column /\ sortDirection' = "asc")]_vars

\* score has been clicked while another column was the active sort column
C11_Witness ==
    /\ sortCycle = [column |-> "score", clicks |-> 0]
    /\ sortColumn = "score"
    /\ sortDirection = "asc"

\* does hay contain needle when the case of letters is ignored
ContainsIgnoringCase(hay, needle) ==
    \E i \in 0..(Len(hay) - Len(needle)) :
        \A j \in 1..Len(needle) : ToLowerChar(hay[i + j]) = ToLowerChar(needle[j])

\* the positions of rows the free-text filter keeps: all of them when the
\* trimmed text is empty, else those whose element identifier contains the text
KeptPositions(rows, text) ==
    {i \in DOMAIN rows :
        \/ Trim(text) = <<>>
        \/ ContainsIgnoringCase(ElementChars(RowElement(rows[i])), text)}

\* the rows at the positions of at, in their order in rows
RECURSIVE RowsAt(_, _)
RowsAt(rows, at) ==
    IF rows = <<>> THEN <<>>
    ELSE RowsAt(SubSeq(rows, 1, Len(rows) - 1), at)
         \o (IF Len(rows) \in at THEN <<rows[Len(rows)]>> ELSE <<>>)

\* how many times row stands in rows
Count(rows, row) == Cardinality({i \in DOMAIN rows : rows[i] = row})

IsPipelineCall == lastCall.fn = "filteredAndSortedResults"

\* C12: the pipeline output holds exactly the rows whose element identifier
\* contains the filter text, case ignored, when the trimmed filter text is not
\* empty, and every row when it is empty.
C12_TextFilterKeepsMatches ==
    IsPipelineCall =>
        LET kept == RowsAt(lastCall.rows, KeptPositions(lastCall.rows, lastCall.text))
        IN  /\ Len(lastCall.ret) = Len(kept)
            /\ \A r \in Range(kept) \cup Range(lastCall.ret) :
                   Count(lastCall.ret, r) = Count(kept, r)

\* the text "e" keeps the rows of e1, e2 and E3
C12_Witness ==
    /\ IsPipelineCall
    /\ lastCall.text = <<"e">>
    /\ Len(lastCall.ret) = 3
    /\ "E3" \in ElementsOf(lastCall.ret)

\* C13: with sort column "none" the pipeline returns the text-filtered rows
\* in their order in the raw result list; with no active sort the rows on
\* screen are the raw result list in its order, whatever clicks came before.
C13_NoSortKeepsInsertionOrder ==
    /\ (IsPipelineCall /\ lastCall.column = "none") =>
          lastCall.ret = RowsAt(lastCall.rows,
                                KeptPositions(lastCall.rows, lastCall.text))
    /\ sortColumn = "none" =>
          VisibleRows = RowsAt(results, KeptPositions(results, filterText))

\* three clicks on one column have ended the sort with a leftover "desc",
\* and the pipeline returns the three rows as the raw result list has them
C13_Witness ==
    /\ IsPipelineCall
    /\ lastCall.column = "none"
    /\ lastCall.direction = "desc"
    /\ sortCycle.clicks = 3
    /\ lastCall.ret = << <<"E3", 2>>, <<"e1", 9>>, <<"e2", 5>> >>

\* row a may stand directly before row b in an output sorted by column
InOrder(a, b, column, direction) ==
    LET comparison == IF column = "element"
                      THEN LocaleCompare(RowElement(a), RowElement(b))
                      ELSE RowScore(a) - RowScore(b)
    IN  IF direction = "asc" THEN comparison <= 0 ELSE comparison >= 0

\* C14: with an active sort column the pipeline output is a permutation of
\* the text-filtered rows, non-decreasing in the column for "asc" and
\* non-increasing for "desc".
C14_SortedPermutation ==
    (IsPipelineCall /\ lastCall.column # "none") =>
        LET kept == RowsAt(lastCall.rows, KeptPositions(lastCall.rows, lastCall.text))
            out == lastCall.ret
        IN  /\ Len(out) = Len(kept)
            /\ \A r \in Range(kept) \cup Range(out) : Count(out, r) = Count(kept, r)
            /\ \A i \in 1..(Len(out) - 1) :
                   InOrder(out[i], out[i + 1], lastCall.column, lastCall.direction)

\* three rows sorted by element identifier, descending
C14_Witness ==
    /\ IsPipelineCall
    /\ lastCall.column = "element"
    /\ lastCall.direction = "desc"
    /\ lastCall.ret = << <<"E3", 2>>, <<"e2", 5>>, <<"e1", 9>> >>

FetchTriggered ==
    /\ showAttributes' /\ results' # <<>>
    /\ keyName' # keyName \/ results' # results \/ ~showAttributes

\* the requests awaiting their response that no cleanup has cancelled
LiveFetches(fs) == {f \in fs : ~f.cancelled}

\* C16: each run of the fetch effect over a non-empty result list leaves
\* exactly one request in flight, and it carries every element of the result
\* list in result order.
C16_OneBatchedRequest ==
    [][FetchTriggered =>
          \E f \in LiveFetches(fetches') :
              /\ LiveFetches(fetches') = {f}
              /\ f.elements = ElementList(results')
              /\ f.key = keyName']_vars

\* one request for the two elements of the result list is in flight
C16_Witness ==
    \E f \in LiveFetches(fetches) :
        /\ Len(f.elements) = 2
        /\ f.elements = ElementList(results)

IsValidateCall == lastCall.fn = "validateVinfoMultiRequest"

\* the result is a refusal: not valid, an error, no value
Refused(ret) ==
    /\ ~ret.isValid
    /\ "error" \in DOMAIN ret
    /\ "value" \notin DOMAIN ret

\* C17: for a keyNames array with at least one key name that key-name
\* validation refuses, wherever it stands, validateVinfoMultiRequest returns
\* isValid = false with an error and no value.
C17_InvalidKeyRejectsBatch ==
    (/\ IsValidateCall
     /\ IsArray(lastCall.body.keyNames)
     /\ \E i \in DOMAIN lastCall.body.keyNames.items :
            ~ValidateKeyName(lastCall.body.keyNames.items[i]))
    => Refused(lastCall.ret)

\* two valid key names stand before the invalid one
C17_Witness ==
    /\ IsValidateCall
    /\ lastCall.body.keyNames = JsArray(<<"vset:a", "vset:b", "bad key">>)
    /\ ~lastCall.ret.isValid

\* C18: validateVinfoMultiRequest returns isValid = true exactly when
\* keyNames is a non-empty array all of whose entries pass key-name
\* validation, and a refusal (an error, no value) otherwise, which covers
\* keyNames missing, not an array, or empty.
C18_ValidIffNonEmptyValidArray ==
    IsValidateCall =>
        LET keyNames == lastCall.body.keyNames
            acceptable == /\ keyNames.type = "array"
                          /\ keyNames.items # <<>>
                          /\ \A i \in DOMAIN keyNames.items :
                                 ValidateKeyName(keyNames.items[i])
        IN  /\ lastCall.ret.isValid <=> acceptable
            /\ ~lastCall.ret.isValid => Refused(lastCall.ret)
            /\ lastCall.ret.isValid => "value" \in DOMAIN lastCall.ret

\* the empty array is refused
C18_Witness ==
    /\ IsValidateCall
    /\ lastCall.body.keyNames = JsArray(<<>>)
    /\ Refused(lastCall.ret)

\* C19: for a validated request buildVinfoMultiCommand returns one command
\* per key name in input order, duplicates kept, and the validated value's
\* keyNames is the input sequence.
C19_OneCommandPerKeyInOrder ==
    lastCall.fn = "buildVinfoMultiCommand" =>
        LET input == lastCall.body.keyNames.items
        IN  /\ lastCall.request.keyNames = input
            /\ Len(lastCall.ret) = Len(input)
            /\ \A i \in DOMAIN input : lastCall.ret[i] = <<"VINFO", input[i]>>

\* commands for a request that names one key twice
C19_Witness ==
    /\ lastCall.fn = "buildVinfoMultiCommand"
    /\ lastCall.body.keyNames = JsArray(<<"vset:b", "vset:a", "vset:b">>)
    /\ Len(lastCall.ret) = 3

\* C20: when the response of a fetch is applied, every requested element has
\* the returned payload as its raw cache entry (null when there are no
\* attributes), and has a parsed cache entry iff its payload is not null and
\* parses; a payload that does not parse stays in the raw cache and keeps no
\* other element of the batch from being stored and parsed.
C20_PerElementStoreAndParse ==
    lastCall.fn = "fetchAttributes" =>
        \A i \in DOMAIN lastCall.elements :
            LET element == lastCall.elements[i]
                payload == lastCall.ret[i]
                parses == payload # Null /\ ParseOk(payload)
            IN  /\ element \in DOMAIN attributeCache
                /\ attributeCache[element] = payload
                /\ element \in DOMAIN parsedAttributeCache <=> parses
                /\ parses => parsedAttributeCache[element] = Parsed(payload)

\* the payload of e1 does not parse, the payload of e2 behind it is parsed
C20_Witness ==
    /\ lastCall.fn = "fetchAttributes"
    /\ lastCall.elements = <<"e1", "e2">>
    /\ lastCall.ret = <<PayloadBad, PayloadColor>>
    /\ attributeCache["e1"] = PayloadBad
    /\ "e1" \notin DOMAIN parsedAttributeCache
    /\ "e2" \in DOMAIN parsedAttributeCache

\* C21: a fetch that fails (fetchAttributes returns no result) leaves the raw
\* cache, the parsed cache and the column list as they were.
C21_FailedFetchChangesNothing ==
    [][lastOp' = Op("FetchComplete", "failed") =>
          UNCHANGED <<attributeCache, parsedAttributeCache, availableColumns>>]_vars

\* a fetch has failed over caches and attribute columns of an earlier fetch
C21_Witness ==
    /\ lastOp = Op("FetchComplete", "failed")
    /\ attributeCache # EmptyMap
    /\ parsedAttributeCache # EmptyMap
    /\ Len(availableColumns) > 2

\* C22: when the response of a fetch has been applied, a second fetch over
\* the same elements, started from this state and answered with the same
\* response, sets the raw cache, the parsed cache and the column list to
\* what they already are.
C22_FetchIdempotent ==
    lastCall.fn = "fetchAttributes" =>
        /\ NewCache(attributeCache, lastCall.elements, lastCall.ret) = attributeCache
        /\ NewParsedCache(lastCall.elements, lastCall.ret) = parsedAttributeCache
        /\ FetchedColumns(availableColumns, lastCall.ret, prefs) = availableColumns

\* a response for two elements, one of them with a field, has been applied
C22_Witness ==
    /\ lastCall.fn = "fetchAttributes"
    /\ Len(lastCall.elements) = 2
    /\ Len(availableColumns) = 3
    /\ parsedAttributeCache # EmptyMap

\* C23 (as claimed): every element with a raw cache entry has a parsed cache
\* entry iff its raw payload is not null and parses, and the entry is the
\* parse of that payload.
C23_ParsedDerivedFromRaw ==
    \A e \in DOMAIN attributeCache :
        LET parses == attributeCache[e] # Null /\ ParseOk(attributeCache[e])
        IN  /\ e \in DOMAIN parsedAttributeCache <=> parses
            /\ parses => parsedAttributeCache[e] = Parsed(attributeCache[e])

\* C24 (as claimed): an attribute column that a step adds to the column list
\* starts with the visibility the persisted preferences give for its name
\* (visible when they hold no record).
C24_NewColumnVisibilityFromLookup ==
    [][\A i \in DOMAIN availableColumns' :
          (/\ IsAttribute(availableColumns'[i])
           /\ availableColumns'[i].name \notin ColumnNamesOf(availableColumns))
          => availableColumns'[i].visible
                = GetColumnVisibility(prefs', availableColumns'[i].name, TRUE)]_vars

\* the step is a toggle of a column: the column list changes, and nothing
\* that any other writer of the column list changes does
ToggleStep ==
    /\ availableColumns' # availableColumns
    /\ UNCHANGED <<keyName, searchFilter, showAttributes,
                   showOnlyFilteredAttributes, fetches, editingAttributes>>

MarkerPositions(s) ==
    {i \in 1..(Len(s) - 1) : s[i] = "." /\ IsIdentStart(s[i + 1])}

\* the identifier-like token behind the marker at position i: the longest
\* run of letters, digits and underscores
TokenBehind(s, i) ==
    LET last == CHOOSE j \in (i + 1)..Len(s) :
                    /\ \A k \in (i + 1)..j : IsIdentChar(s[k])
                    /\ j = Len(s) \/ ~IsIdentChar(s[j + 1])
    IN  Join(SubSeq(s, i + 1, last))

\* the first marker position of s whose token is name
FirstPosition(s, name) ==
    CHOOSE i \in MarkerPositions(s) :
        /\ TokenBehind(s, i) = name
        /\ \A j \in MarkerPositions(s) : TokenBehind(s, j) = name => i <= j

\* C26: the referenced fields of a filter expression are exactly the
\* identifier-like tokens that directly follow a marker, the marker stripped,
\* each once, in the order of their first appearance; the empty expression
\* has none.
C26_ReferencedFieldExtraction ==
    lastCall.fn = "filteredFields" =>
        LET s == lastCall.searchFilter
            fields == lastCall.ret
        IN  /\ Range(fields) = {TokenBehind(s, i) : i \in MarkerPositions(s)}
            /\ \A a, b \in DOMAIN fields :
                  a < b => FirstPosition(s, fields[a]) < FirstPosition(s, fields[b])
            /\ s = <<>> => fields = <<>>

\* a stands before B, as in the expression, and the second .a adds nothing
C26_Witness ==
    /\ lastCall.fn = "filteredFields"
    /\ lastCall.searchFilter = <<".", "a", ".", "B", ".", "a">>
    /\ lastCall.ret = <<"a", "B">>

\* the string form of the parsed value of field f of element e, "" when the
\* element has no parsed attributes or they do not hold the field
ParsedValueString(e, f) ==
    IF e \in DOMAIN parsedAttributeCache /\ f \in DOMAIN parsedAttributeCache[e]
    THEN parsedAttributeCache[e][f] ELSE ""

\* C27: while attribute display and filtered-only mode are on and the filter
\* expression references a field, every row shows for every referenced field
\* the string form of the row's parsed value of that field, or "" when the
\* field or the row's parsed attributes are absent; the shown values follow
\* the result list, the referenced fields and the parsed cache.
C27_OverrideValuesFollowParsedCache ==
    OverrideActive =>
        \A e \in ElementsOf(results) :
            \A f \in Range(FilteredFields(searchFilter)) :
                DisplayedFieldValue(filteredFieldValues, e, f) =
                    ParsedValueString(e, f)

\* the row of e1 shows red for the referenced field color
C27_Witness ==
    /\ OverrideActive
    /\ "e1" \in ElementsOf(results)
    /\ "color" \in Range(FilteredFields(searchFilter))
    /\ "e1" \in DOMAIN parsedAttributeCache
    /\ "color" \in DOMAIN parsedAttributeCache["e1"]
    /\ DisplayedFieldValue(filteredFieldValues, "e1", "color") = "red"

\* C28 (as claimed): with filtered-only mode off, or without a filter
\* expression, no override display values are held: the mapping of an earlier
\* period in which the mode was in force is gone.
C28_NoOverrideValuesHeld ==
    (~showOnlyFilteredAttributes \/ searchFilter = <<>>) =>
        filteredFieldValues = EmptyMap

\* C29: toggling an element flips the membership of exactly that element in
\* the selection and leaves the membership of every other element as it was;
\* toggling the same element once more gives the selection before the toggle.
C29_ToggleFlipsOneElement ==
    [][\A e \in Elements :
          lastOp' = [op |-> "HandleSelectToggle", arg |-> e] =>
              /\ (e \in selectedElements') <=> (e \notin selectedElements)
              /\ \A x \in Elements \ {e} :
                    (x \in selectedElements') <=> (x \in selectedElements)
              /\ Toggled(selectedElements', e) = selectedElements]_vars

\* e1 has been toggled out of a selection that keeps e2
C29_Witness ==
    /\ lastOp = [op |-> "HandleSelectToggle", arg |-> "e1"]
    /\ selectedElements = {"e2"}
    /\ "e1" \in ElementsOf(results)

\* C30: leaving select mode empties the selection and turns select mode off;
\* deselect all empties the selection and leaves select mode as it was;
\* neither changes the caches, the column list, the sort state or the filter
\* text.
C30_ExitAndDeselectAllFrame ==
    [][/\ lastOp'.op = "HandleExitSelectMode" =>
              /\ selectedElements' = {} /\ ~selectMode'
              /\ UNCHANGED <<attributeCache, parsedAttributeCache,
                             availableColumns, sortColumn, sortDirection,
                             filterText>>
       /\ lastOp'.op = "HandleDeselectAll" =>
              /\ selectedElements' = {} /\ selectMode' = selectMode
              /\ UNCHANGED <<attributeCache, parsedAttributeCache,
                             availableColumns, sortColumn, sortDirection,
                             filterText>>]_vars

\* select mode has been left with a sort column set and a parsed entry cached
C30_Witness ==
    /\ lastOp.op = "HandleExitSelectMode"
    /\ ~selectMode /\ selectedElements = {}
    /\ sortColumn # "none"
    /\ parsedAttributeCache # EmptyMap

\* the raw entry of e was written while fetch f was in flight: it is not the
\* entry f found when it started
WrittenSince(f, e) ==
    /\ e \in DOMAIN attributeCache
    /\ e \notin DOMAIN f.cache \/ f.cache[e] # attributeCache[e]

\* C31 (as claimed): an editor commit for an element made while a fetch is in
\* flight is never overwritten by the completion of that fetch: after both,
\* the raw and the parsed entry of the element hold the committed payload.
C31_CommitNotOverwritten ==
    [][\A f \in fetches : \A e \in Range(f.elements) :
          (f \notin fetches' /\ ~f.cancelled /\ WrittenSince(f, e)) =>
              /\ e \in DOMAIN attributeCache'
              /\ attributeCache'[e] = attributeCache[e]
              /\ ParseOk(attributeCache[e]) =>
                    /\ e \in DOMAIN parsedAttributeCache'
                    /\ parsedAttributeCache'[e] = Parsed(attributeCache[e])]_vars

\* C32: at most one started fetch is live at any time: every run of the fetch
\* effect that starts a fetch has cancelled the fetches started before it, and
\* the response of a cancelled fetch writes nothing, in whatever order the
\* responses arrive.
C32_AtMostOneLiveFetch ==
    [][/\ Cardinality(LiveFetches(fetches')) <= 1
       /\ \A f \in LiveFetches(fetches') \ fetches :
             \A g \in fetches' \ {f} : g.cancelled
       /\ \A f \in fetches :
             (f \notin fetches' /\ f.cancelled) =>
                 UNCHANGED <<attributeCache, parsedAttributeCache,
                             availableColumns>>]_vars

\* the response of a cancelled fetch has arrived while the fetch that
\* replaced it still awaits its own
C32_Witness ==
    /\ lastOp = Op("FetchComplete", "cancelled")
    /\ LiveFetches(fetches) # {}

\* C33: a change of attribute display, result list or keyName that leaves
\* attribute display on and the result list non-empty starts a fetch for the
\* result list; no fetch is live while attribute display is off or the result
\* list is empty; a fetch superseded by a later trigger or by a reset never
\* writes into the cache.
C33_FetchStartedWhenEnabled ==
    [][/\ FetchTriggered =>
             \E f \in LiveFetches(fetches') :
                 /\ f.elements = ElementList(results')
                 /\ f.gen = gen'
       /\ (~showAttributes' \/ results' = <<>>) => LiveFetches(fetches') = {}
       /\ \A f \in fetches :
             (f \notin fetches' /\ (f.cancelled \/ f.gen # gen)) =>
                 UNCHANGED <<attributeCache, parsedAttributeCache>>]_vars

\* the response of a fetch of the previous dataset has arrived and written
\* nothing, while the fetch started after the reset is in flight
C33_Witness ==
    /\ lastOp = Op("FetchComplete", "stale")
    /\ LiveFetches(fetches) # {}
    /\ attributeCache = EmptyMap

\* C34 (as claimed): on a keyName change the caches, the attribute columns,
\* the filtered field values and the selection are reset before the fetch for
\* the new dataset begins, and that fetch works on the reset, empty cache, not
\* on the cache of the previous dataset.
C34_NewFetchOnResetCache ==
    [][keyName' # keyName =>
          /\ attributeCache' = EmptyMap /\ parsedAttributeCache' = EmptyMap
          /\ Len(availableColumns') = 2
          /\ filteredFieldValues' = EmptyMap
          /\ selectedElements' = {}
          /\ \A f \in LiveFetches(fetches') : f.cache = EmptyMap]_vars

\* C35 (as claimed): a fetch asks only for elements that have no raw cache
\* entry for the current dataset; an element whose payload is cached is not
\* asked for again when the result list is replaced by one that still holds it.
C35_FetchOnlyMissing ==
    [][gen' = gen =>
          \A f \in LiveFetches(fetches') \ fetches :
              \A e \in Range(f.elements) : e \notin DOMAIN attributeCache]_vars

\* C36 (as claimed): the attribute-loading flag is true only while a live
\* fetch is in flight: once every started fetch has completed or been
\* cancelled the flag becomes false, also when the fetch was cancelled because
\* attribute display was turned off or the result list became empty under the
\* same keyName.  Stated for the states in which no response is awaited any
\* more, where no code is left to run that could still clear the flag.
C36_LoadingFlagCleared ==
    fetches = {} => ~isLoadingAttributes

\* C37 (as claimed): column names are unique in the column list in every
\* reachable state: no attribute column shares its name with another
\* attribute column or with a system column, also when a fetched or committed
\* payload has a field named element or score.
C37_ColumnNamesUnique ==
    \A i, j \in DOMAIN availableColumns :
        availableColumns[i].name = availableColumns[j].name => i = j

\* C38 (as claimed): while attribute display is off no attribute column is
\* visible, whatever fetch completions, editor commits, toggles and mode
\* changes came before; an editor commit that brings a new field while
\* attribute display is off makes no attribute column visible.
C38_NoAttributeColumnVisibleWhenOff ==
    ~showAttributes =>
        \A i \in DOMAIN availableColumns :
            IsAttribute(availableColumns[i]) => ~availableColumns[i].visible

LateClose ==
    /\ editingAttributes = Null
    /\ pendingCommit # Null
    /\ pendingCommit' = Null

\* C40 (as claimed): an editor commit is applied only to the dataset in which
\* the edit was opened: a commit or a cancel that arrives after a keyName
\* change writes nothing to the raw cache, the parsed cache or the column
\* list of the new dataset, and the editing element is cleared in every case.
C40_CommitOnlyInOwnDataset ==
    [][/\ LateClose =>
             UNCHANGED <<attributeCache, parsedAttributeCache, availableColumns>>
       /\ (LateClose \/ (editingAttributes # Null /\ pendingCommit' = Null)) =>
             editingAttributes' = Null]_vars

====
